---- MODULE Spec2Model ----
(***************************************************************************)
(* Model of polygon.py: the perimeter generator                            *)
(* generate_turbine_perimeter_from_kmz and the Streamlit script around it. *)
(*                                                                         *)
(* Numbers.  Python floats are modelled as exact rationals <<n, d>>, d > 0,*)
(* in lowest terms, so that equal numbers are equal values.                *)
(* Projection.  EPSG:4326 <-> EPSG:32735 is modelled by an invertible      *)
(* affine map with different scales on the two axes and a false origin:    *)
(* it moves every coordinate, keeps straight lines straight and does not   *)
(* keep ratios of lengths between directions, which is what the pipeline   *)
(* depends on.                                                             *)
(***************************************************************************)
EXTENDS Integers, Sequences, FiniteSets, TLC

(***************************************************************************)
(* Rational arithmetic                                                     *)
(***************************************************************************)
Abs(n) == IF n < 0 THEN 0 - n ELSE n

RECURSIVE GCD(_, _)
GCD(a, b) == IF b = 0 THEN a ELSE GCD(b, a % b)

Rat(n, d) ==
    LET g == GCD(Abs(n), Abs(d))
        s == IF d < 0 THEN 0 - 1 ELSE 1
    IN  <<(s * n) \div g, (s * d) \div g>>

Num(n) == <<n, 1>>
RAdd(a, b) == Rat(a[1] * b[2] + b[1] * a[2], a[2] * b[2])
RSub(a, b) == Rat(a[1] * b[2] - b[1] * a[2], a[2] * b[2])
RMul(a, b) == Rat(a[1] * b[1], a[2] * b[2])
RDiv(a, b) == Rat(a[1] * b[2], a[2] * b[1])
RLess(a, b) == a[1] * b[2] < b[1] * a[2]
RLeq(a, b) == a[1] * b[2] <= b[1] * a[2]
RSign(a) == IF a[1] < 0 THEN 0 - 1 ELSE IF a[1] = 0 THEN 0 ELSE 1

\* The exact square root of a rational that has one (every length the model
\* takes is between points chosen to make it rational).
ISqrt(n) == CHOOSE k \in 0..n : k * k = n
RSqrt(a) == Rat(ISqrt(a[1]), ISqrt(a[2]))

RECURSIVE RSum(_)
RSum(s) == IF s = <<>> THEN Num(0) ELSE RAdd(Head(s), RSum(Tail(s)))

(***************************************************************************)
(* Coordinate reference systems and plane geometry                         *)
(***************************************************************************)
WGS84 == "EPSG:4326"
UTM35S == "EPSG:32735"

Pt(x, y) == <<Num(x), Num(y)>>

\* to_crs from EPSG:4326 to EPSG:32735 and back, coordinate by coordinate:
\* x = 5/4 lon + 50, y = 4 lat + 100.
ToMetric(p) ==
    <<RAdd(RMul(Rat(5, 4), p[1]), Num(50)), RAdd(RMul(Num(4), p[2]), Num(100))>>
ToGeographic(p) ==
    <<RDiv(RSub(p[1], Num(50)), Rat(5, 4)), RDiv(RSub(p[2], Num(100)), Num(4))>>

Reproject(p, from, to) ==
    IF from = to THEN p
    ELSE IF from = WGS84 /\ to = UTM35S THEN ToMetric(p)
    ELSE ToGeographic(p)

\* Sign of the cross product (a - o) x (b - o).
CrossSign(o, a, b) ==
    RSign(RSub(RMul(RSub(a[1], o[1]), RSub(b[2], o[2])),
               RMul(RSub(a[2], o[2]), RSub(b[1], o[1]))))

Dist2(a, b) ==
    RAdd(RMul(RSub(b[1], a[1]), RSub(b[1], a[1])),
         RMul(RSub(b[2], a[2]), RSub(b[2], a[2])))

SegLen(a, b) == RSqrt(Dist2(a, b))

Range(s) == {s[i] : i \in DOMAIN s}

Collinear(S) == \A a \in S, b \in S, c \in S : CrossSign(a, b, c) = 0

(***************************************************************************)
(* Shapely / GeoPandas values.  A geometry is [crs, kind, coords]; crs is   *)
(* the reference system its coordinates are expressed in (the crs of the   *)
(* frame it was taken from).  A frame is [crs, geometry], geometry a       *)
(* sequence of geometries.                                                 *)
(***************************************************************************)
NoCrs == "None"

Geom(crs, kind, coords) == [crs |-> crs, kind |-> kind, coords |-> coords]

\* gpd.GeoDataFrame(geometry=..., crs=...) / gpd.GeoSeries(..., crs=...):
\* the crs is declared, the coordinates are taken as they are.
GeoFrame(geoms, crs) ==
    [crs |-> crs, geometry |-> [i \in DOMAIN geoms |-> [geoms[i] EXCEPT !.crs = crs]]]

SetCrs(frame, crs) == GeoFrame(frame.geometry, crs)

ToCrs(frame, crs) ==
    [crs |-> crs,
     geometry |-> [i \in DOMAIN frame.geometry |->
        Geom(crs, frame.geometry[i].kind,
             [k \in DOMAIN frame.geometry[i].coords |->
                Reproject(frame.geometry[i].coords[k], frame.crs, crs)])]]

RECURSIVE Dedup(_)
Dedup(s) ==
    IF s = <<>> THEN <<>>
    ELSE LET r == Dedup(SubSeq(s, 1, Len(s) - 1))
         IN  IF s[Len(s)] \in Range(r) THEN r ELSE Append(r, s[Len(s)])

\* The points of a frame of Point geometries, in order.
FramePoints(frame) == [i \in DOMAIN frame.geometry |-> frame.geometry[i].coords[1]]

\* union_all / unary_union of points: the distinct points.
UnionAll(frame) ==
    LET pts == Dedup(FramePoints(frame))
    IN  Geom(frame.crs,
             IF Len(pts) = 0 THEN "GeometryCollection"
             ELSE IF Len(pts) = 1 THEN "Point" ELSE "MultiPoint",
             pts)

\* The lowest, then leftmost, point: where the hull's ring starts.
Lowest(S) ==
    CHOOSE p \in S : \A q \in S :
        RLess(p[2], q[2]) \/ (p[2] = q[2] /\ RLeq(p[1], q[1]))

\* The two ends of a set of collinear points.
Ends(S) ==
    LET a == Lowest(S)
        b == CHOOSE q \in S : \A r \in S : RLeq(Dist2(a, r), Dist2(a, q))
    IN  <<a, b>>

\* The next vertex after p walking the hull clockwise: every other point is
\* to the right of p -> q, or on it and nearer.
NextVertex(S, p) ==
    CHOOSE q \in S \ {p} : \A r \in S \ {p, q} :
        \/ CrossSign(p, q, r) < 0
        \/ CrossSign(p, q, r) = 0 /\ RLess(Dist2(p, r), Dist2(p, q))

RECURSIVE HullWalk(_, _, _, _)
HullWalk(S, start, p, acc) ==
    LET q == NextVertex(S, p)
    IN  IF q = start THEN Append(acc, start)
        ELSE HullWalk(S, start, q, Append(acc, q))

HullRing(S) == HullWalk(S, Lowest(S), Lowest(S), <<Lowest(S)>>)

\* geometry.convex_hull: a Polygon whose exterior is a closed ring, or a
\* lower-dimensional geometry when the points do not span an area.
ConvexHull(g) ==
    LET S == Range(g.coords)
    IN  IF S = {} THEN Geom(g.crs, "GeometryCollection", <<>>)
        ELSE IF Cardinality(S) = 1 THEN Geom(g.crs, "Point", <<CHOOSE p \in S : TRUE>>)
        ELSE IF Collinear(S) THEN Geom(g.crs, "LineString", Ends(S))
        ELSE Geom(g.crs, "Polygon", HullRing(S))

\* geometry.centroid of points: the mean of the coordinates.
Centroid(g) ==
    LET n == Len(g.coords)
    IN  Geom(g.crs, "Point",
             << <<RDiv(RSum([i \in 1..n |-> g.coords[i][1]]), Num(n)),
                  RDiv(RSum([i \in 1..n |-> g.coords[i][2]]), Num(n))>> >>)

\* LineString(coords) of coordinates taken from a geometry.
LineString(g) == Geom(g.crs, "LineString", g.coords)

SegLens(c) == [k \in 1..(Len(c) - 1) |-> SegLen(c[k], c[k + 1])]
LineLength(c) == RSum(SegLens(c))

\* The point at distance d from c[k] along c, d >= 0.
RECURSIVE PointAt(_, _, _)
PointAt(c, k, d) ==
    LET l == SegLen(c[k], c[k + 1])
    IN  IF RLeq(d, l) \/ k = Len(c) - 1
        THEN LET t == RDiv(d, l)
             IN  <<RAdd(c[k][1], RMul(t, RSub(c[k + 1][1], c[k][1]))),
                   RAdd(c[k][2], RMul(t, RSub(c[k + 1][2], c[k][2])))>>
        ELSE PointAt(c, k + 1, RSub(d, l))

\* line.interpolate(fraction, normalized=True)
Interpolate(line, fraction) ==
    Geom(line.crs, "Point",
         <<PointAt(line.coords, 1, RMul(fraction, LineLength(line.coords)))>>)

(***************************************************************************)
(* Text.  A string is the sequence of its lines (what splitting at "\n"    *)
(* gives), a line the sequence of its pieces.                              *)
(***************************************************************************)
StrCat(a, b) ==
    SubSeq(a, 1, Len(a) - 1) \o <<a[Len(a)] \o b[1]>> \o SubSeq(b, 2, Len(b))

\* "\n".join(items), every item a string of one line.
JoinLines(items) ==
    IF items = <<>> THEN << <<>> >> ELSE [i \in DOMAIN items |-> items[i][1]]

\* f"{x:.6f}": x rounded to a whole number of millionths.
Fmt6(x) ==
    LET m == (2 * 1000000 * Abs(x[1]) + x[2]) \div (2 * x[2])
    IN  <<"%.6f", IF x[1] < 0 THEN 0 - m ELSE m>>

(***************************************************************************)
(* Archives, markup documents and the working directory tmp_upload         *)
(***************************************************************************)
Absent == "absent"

Name(stem, ext) == <<stem, ext>>
EndsWithKml(file) == file[2] = ".kml"

DocKml == Name("doc", ".kml")
SiteKml == Name("site", ".kml")
ReadMe == Name("readme", ".txt")
FileNames == {DocKml, SiteKml, ReadMe}

\* The layers of each markup document: layer name -> [crs, points].
DocLayers(doc) ==
    CASE doc = "DocA" ->
           [Turbines |-> [crs |-> WGS84,
                          points |-> <<Pt(0, 0), Pt(4, 3), Pt(4, 0), Pt(0, 3), Pt(1, 1)>>],
            Masts |-> [crs |-> WGS84, points |-> <<Pt(0, 0), Pt(4, 3)>>]]
      [] doc = "DocB" ->
           [Turbines |-> [crs |-> NoCrs,
                          points |-> <<Pt(4, 0), Pt(0, 0), Pt(0, 3), Pt(4, 0)>>],
            Masts |-> [crs |-> WGS84, points |-> <<Pt(0, 0), Pt(4, 0), Pt(8, 0)>>],
            Substation |-> [crs |-> WGS84, points |-> <<Pt(4, 3)>>]]
      [] OTHER -> [Empty |-> [crs |-> WGS84, points |-> <<>>]]

\* The entries of each archive: file name -> content.
ArchiveEntries(kmz) ==
    CASE kmz = "KmzA" -> (DocKml :> "DocA")
      [] kmz = "KmzB" -> (SiteKml :> "DocB") @@ (ReadMe :> "Text")
      [] kmz = "KmzC" -> (DocKml :> "DocB")
      [] OTHER -> (ReadMe :> "Text")

Archives == {"KmzA", "KmzB", "KmzC", "KmzN"}
LayerNames == {"Turbines", "Masts", "Substation"}

HasKml(kmz) == \E f \in DOMAIN ArchiveEntries(kmz) : EndsWithKml(f)

EmptyDir == [f \in FileNames |-> Absent]

\* zipfile.ZipFile(path).extractall(dir): every entry is written, replacing a
\* file of the same name; nothing else in the directory is touched.
ExtractAll(kmz, dir) ==
    [f \in FileNames |->
        IF f \in DOMAIN ArchiveEntries(kmz) THEN ArchiveEntries(kmz)[f] ELSE dir[f]]

\* os.listdir(dir): the names present, in the order the file system lists
\* them (order: all names in that order; arbitrary, the same at every call).
IsPresent(dir, f) == dir[f] # Absent
ListDir(dir, order) == SelectSeq(order, LAMBDA f : IsPresent(dir, f))

NoPath == "None"

\* Lines 21-25 and 119-123: the first listed name ending in ".kml".
RECURSIVE FirstKml(_)
FirstKml(names) ==
    IF names = <<>> THEN NoPath
    ELSE IF EndsWithKml(Head(names)) THEN Head(names)
    ELSE FirstKml(Tail(names))

FindKml(dir, order) == FirstKml(ListDir(dir, order))

\* fiona.listlayers(path)
ListLayers(doc) == DOMAIN DocLayers(doc)

\* gpd.read_file(path, driver="KML", layer=layer_name)
ReadFile(doc, layer_name) ==
    LET l == DocLayers(doc)[layer_name]
    IN  [crs |-> l.crs,
         geometry |-> [i \in DOMAIN l.points |-> Geom(l.crs, "Point", <<l.points[i]>>)]]

(***************************************************************************)
(* generate_turbine_perimeter_from_kmz, after the markup file is found     *)
(***************************************************************************)
ZoomStartDefault == 12

\* Lines 30-33: the layer as a frame, its crs set when the file gives none.
LoadLayer(doc, layer_name) ==
    LET gdf == ReadFile(doc, layer_name)
    IN  IF gdf.crs = NoCrs THEN SetCrs(gdf, WGS84) ELSE gdf

\* Line 36.
ProjectToMetric(gdf) == ToCrs(gdf, UTM35S)

\* Lines 39-44: the union, its hull, and the hull back in EPSG:4326.
BuildPerimeter(gdf_m) ==
    LET combined == UnionAll(gdf_m)
        hull == ConvexHull(combined)
        perimeter_gdf == ToCrs(GeoFrame(<<hull>>, UTM35S), WGS84)
    IN  [combined |-> combined, hull |-> hull, perimeter |-> perimeter_gdf.geometry[1]]

\* range(1, num_points + 1) in place of range(num_points).
PyRangeFromOne(n) == [k \in 1..n |-> k]

\* range(num_points), as the sequence of its values.
PyRange(n) == [k \in 1..n |-> k - 1]

\* Lines 47-52: the sampled points of a Polygon perimeter.
Resample(perimeter, num_points) ==
    LET perimeter_line == LineString(perimeter)
        fractions == [k \in DOMAIN PyRange(num_points) |->
                          Rat(PyRange(num_points)[k], num_points)]
        resampled_points == [k \in DOMAIN fractions |->
                                 Interpolate(perimeter_line, fractions[k])]
    IN  [perimeter_line |-> perimeter_line,
         fractions |-> fractions,
         resampled_points |-> resampled_points,
         resampled_coords |-> [k \in DOMAIN resampled_points |->
                                   resampled_points[k].coords[1]]]

\* The centroid used as it is, the reprojection to EPSG:4326 left out.
CentroidNotReprojected(gdf_m) ==
    LET each == [crs |-> gdf_m.crs,
                 geometry |-> [i \in DOMAIN gdf_m.geometry |-> Centroid(gdf_m.geometry[i])]]
        centroid == Centroid(UnionAll(each))
    IN  [centroid |-> centroid,
         centroid_wgs |-> centroid,
         center |-> <<centroid.coords[1][2], centroid.coords[1][1]>>]

\* Lines 55-57: gdf_m.geometry.centroid.unary_union.centroid, reprojected.
CentroidOf(gdf_m) ==
    LET each == [crs |-> gdf_m.crs,
                 geometry |-> [i \in DOMAIN gdf_m.geometry |-> Centroid(gdf_m.geometry[i])]]
        centroid == Centroid(UnionAll(each))
        centroid_wgs == ToCrs(GeoFrame(<<centroid>>, UTM35S), WGS84).geometry[1]
    IN  [centroid |-> centroid,
         centroid_wgs |-> centroid_wgs,
         center |-> <<centroid_wgs.coords[1][2], centroid_wgs.coords[1][1]>>]

\* Lines 60-85: the folium map, as the list of what it draws.
BuildMap(gdf, perimeter, resampled_coords, center, zoom_start) ==
    [location |-> center,
     zoom_start |-> zoom_start,
     children |->
        << [type |-> "GeoJson", name |-> "Turbines", data |-> ToCrs(gdf, WGS84)],
           [type |-> "GeoJson", name |-> "Perimeter", data |-> perimeter] >>
        \o [k \in DOMAIN resampled_coords |->
               [type |-> "CircleMarker",
                location |-> <<resampled_coords[k][2], resampled_coords[k][1]>>,
                popup |-> <<"Point ", k>>]]
        \o << [type |-> "Marker", location |-> center,
               popup |-> << <<"Centroid">>,
                            <<"Lat: ", Fmt6(center[1]), ", Lon: ", Fmt6(center[2])>> >>],
              [type |-> "LayerControl"] >>]

\* f"{i}: {coord}" in place of f"{i+1}: {coord}".
PointLineZeroBased(k, coord) == << <<k - 1, ": ", coord>> >>

\* Lines 88-93: the text report.
PointLine(k, coord) == << <<k, ": ", coord>> >>

Report(resampled_coords, center) ==
    StrCat(StrCat(StrCat(
        << <<"Perimeter Points (longitude, latitude):">>, <<>> >>,
        JoinLines([k \in DOMAIN resampled_coords |-> PointLine(k, resampled_coords[k])])),
        << <<>>, <<>>, <<"Centroid (latitude, longitude):">>, <<>> >>),
        << <<Fmt6(center[1]), ", ", Fmt6(center[2])>> >>)

Raised(error) == [status |-> "raised", error |-> error]

Returned(html_bytes, txt_content, center, locals) ==
    [status |-> "returned", html_bytes |-> html_bytes, txt_content |-> txt_content,
     center |-> center, locals |-> locals]

\* Lines 30-95 on the markup document found.
Pipeline(doc, layer_name, num_points, zoom_start) ==
    IF layer_name \notin ListLayers(doc) THEN Raised("DataLayerError")
    ELSE
    LET gdf == LoadLayer(doc, layer_name)
        gdf_m == ProjectToMetric(gdf)
        built == BuildPerimeter(gdf_m)
    IN  IF built.perimeter.kind # "Polygon" THEN Raised("AttributeError")
        ELSE
        LET sampled == Resample(built.perimeter, num_points)
            cen == CentroidOf(gdf_m)
            m == BuildMap(gdf, built.perimeter, sampled.resampled_coords,
                          cen.center, zoom_start)
        IN  Returned(m, Report(sampled.resampled_coords, cen.center), cen.center,
                     [gdf |-> gdf, gdf_m |-> gdf_m, combined |-> built.combined,
                      hull |-> built.hull, perimeter |-> built.perimeter,
                      perimeter_line |-> sampled.perimeter_line,
                      fractions |-> sampled.fractions,
                      resampled_points |-> sampled.resampled_points,
                      resampled_coords |-> sampled.resampled_coords,
                      centroid |-> cen.centroid,
                      centroid_wgs |-> cen.centroid_wgs])

\* Lines 26-95, once the archive is extracted: the search result decides.
GenerateFrom(dir, kml_path, layer_name, num_points, zoom_start) ==
    IF kml_path = NoPath THEN Raised("FileNotFoundError")
    ELSE Pipeline(dir[kml_path], layer_name, num_points, zoom_start)

(***************************************************************************)
(* State                                                                   *)
(***************************************************************************)
VARIABLES
    kmz_file,    \* content of tmp_upload/uploaded.kmz: an archive, or Absent
    kml_dir,     \* content of tmp_upload/tmp_kml: file name -> content
    listing,     \* the order in which the file system lists names
    call,        \* the latest direct call of the function: inputs and outcome
    earlier,     \* one call made before it, kept for comparison
    pc,          \* per session: where its script run stands
    uploaded_file,   \* per session: the file in the uploader, or NoFile
    num_points,      \* per session: the slider's value in this run
    clicked,         \* per session: this run was started by the button
    button_shown,    \* per session: the last run drew the button
    kml_path,        \* per session: the script's kml_path
    selected_layer,  \* per session: the selectbox's value
    kmz_bytes,       \* per session: the bytes read back at line 133
    fn_kml_path,     \* per session: kml_path inside the function
    markup_read,     \* per session: the markup file the function read, and its content
    result,          \* per session: what the function returned in this run
    session_state,   \* per session: st.session_state
    last_success,    \* per session: the latest successful generation's result
    error,           \* per session: the exception that ended the last run
    events           \* the number of user events so far

disk == <<kmz_file, kml_dir>>
direct == <<call, earlier>>
inputs == <<uploaded_file, num_points, clicked>>
locals == <<kml_path, selected_layer, kmz_bytes, fn_kml_path, markup_read, result>>
ui == <<pc, events, inputs, button_shown, locals, session_state, last_success,
        error>>
vars == <<disk, listing, direct, ui>>

Sessions == {"s1", "s2"}
NoFile == "None"
NoLayer == "None"
NoError == "None"
Missing == [status |-> "missing"]
Entry(value) == [status |-> "set", value |-> value]
EmptySessionState ==
    [map_html |-> Missing, txt_content |-> Missing, centroid_coords |-> Missing]

NoCall == [status |-> "none"]

Orders ==
    {o \in [1..Cardinality(FileNames) -> FileNames] : Range(o) = FileNames}

\* st.slider("Number of perimeter points", 4, 20, 10): the slider starts at
\* its default; the model's user has moved it to its lowest value before
\* pressing the button.
SliderMin == 4
SliderDefault == 10
SliderValues == {SliderMin}

\* The user events (uploads and clicks) a run of the model follows.
MaxEvents == 3

\* Bounds of the direct calls: num_points ranges over -MaxNegative..MaxPoints.
MaxPoints == 3
MaxNegative == 1
NumPointsInputs == (0 - MaxNegative)..MaxPoints

Init ==
    /\ kmz_file = Absent
    /\ kml_dir = EmptyDir
    /\ listing \in Orders
    /\ call = NoCall
    /\ earlier = NoCall
    /\ pc = [s \in Sessions |-> "idle"]
    /\ uploaded_file = [s \in Sessions |-> NoFile]
    /\ num_points = [s \in Sessions |-> SliderDefault]
    /\ clicked = [s \in Sessions |-> FALSE]
    /\ button_shown = [s \in Sessions |-> FALSE]
    /\ kml_path = [s \in Sessions |-> NoPath]
    /\ selected_layer = [s \in Sessions |-> NoLayer]
    /\ kmz_bytes = [s \in Sessions |-> NoFile]
    /\ fn_kml_path = [s \in Sessions |-> NoPath]
    /\ markup_read = [s \in Sessions |-> <<NoPath, Absent>>]
    /\ result = [s \in Sessions |-> Missing]
    /\ session_state = [s \in Sessions |-> EmptySessionState]
    /\ last_success = [s \in Sessions |-> Missing]
    /\ error = [s \in Sessions |-> NoError]
    /\ events = 0

\* One whole call generate_turbine_perimeter_from_kmz(kmz_bytes, layer_name,
\* num_points): lines 10-95.
Generate(kmz_bytes_in, layer_name, num_points_in, remember) ==
    LET dir == ExtractAll(kmz_bytes_in, kml_dir)
        found == FindKml(dir, listing)
    IN  /\ kmz_file' = kmz_bytes_in
        /\ kml_dir' = dir
        /\ call' = [status |-> "ended",
                    kmz_bytes |-> kmz_bytes_in, layer_name |-> layer_name,
                    num_points |-> num_points_in, kml_path |-> found,
                    outcome |-> GenerateFrom(dir, found, layer_name, num_points_in,
                                             ZoomStartDefault)]
        /\ earlier' = IF remember /\ call # NoCall THEN call ELSE earlier
        /\ UNCHANGED <<listing, ui>>

\* Direct calls with any inputs, none kept for comparison.
Next ==
    \E a \in Archives, l \in LayerNames, n \in NumPointsInputs :
        Generate(a, l, n, FALSE)

Spec == Init /\ [][Next]_vars

\* Direct calls on one layer name and one sample count, any of which may be
\* kept to compare a later call with.
RepeatNext ==
    \E a \in Archives, r \in BOOLEAN : Generate(a, "Turbines", MaxPoints, r)

RepeatSpec == Init /\ [][RepeatNext]_vars

(***************************************************************************)
(* The Streamlit script, one run per user event and session; sessions run  *)
(* in threads of one process and share the directory tmp_upload.           *)
(***************************************************************************)
Goto(s, label) == pc' = [pc EXCEPT ![s] = label]

\* The end of a script run: its variables are gone.
EndRun(s) ==
    /\ kml_path' = [kml_path EXCEPT ![s] = NoPath]
    /\ selected_layer' = [selected_layer EXCEPT ![s] = NoLayer]
    /\ kmz_bytes' = [kmz_bytes EXCEPT ![s] = NoFile]
    /\ fn_kml_path' = [fn_kml_path EXCEPT ![s] = NoPath]
    /\ markup_read' = [markup_read EXCEPT ![s] = <<NoPath, Absent>>]
    /\ result' = [result EXCEPT ![s] = Missing]
    /\ Goto(s, "idle")

\* Lines 144-165: the last section only reads st.session_state; after it
\* the run ends.
DisplayAndEnd(s) == EndRun(s)

\* Lines 104-114, a run started by the user putting a file in the uploader:
\* the upload is written to tmp_upload/uploaded.kmz.
Upload(s, kmz) ==
    /\ pc[s] = "idle"
    /\ events < MaxEvents
    /\ events' = events + 1
    /\ uploaded_file' = [uploaded_file EXCEPT ![s] = kmz]
    /\ clicked' = [clicked EXCEPT ![s] = FALSE]
    /\ error' = [error EXCEPT ![s] = NoError]
    /\ kmz_file' = kmz
    /\ Goto(s, "extract")
    /\ UNCHANGED <<kml_dir, listing, direct, num_points, button_shown,
                   locals, session_state, last_success>>

\* Lines 104-114, a run started by the user pressing "Generate Perimeter
\* Map", drawn by the last run, with the slider at n.
Click(s, n) ==
    /\ pc[s] = "idle"
    /\ button_shown[s]
    /\ events < MaxEvents
    /\ events' = events + 1
    /\ clicked' = [clicked EXCEPT ![s] = TRUE]
    /\ num_points' = [num_points EXCEPT ![s] = n]
    /\ error' = [error EXCEPT ![s] = NoError]
    /\ kmz_file' = uploaded_file[s]
    /\ Goto(s, "extract")
    /\ UNCHANGED <<kml_dir, listing, direct, uploaded_file,
                   button_shown, locals, session_state, last_success>>

\* Lines 116-117: the archive now at that path is extracted.
ExtractUpload(s) ==
    /\ pc[s] = "extract"
    /\ kml_dir' = ExtractAll(kmz_file, kml_dir)
    /\ Goto(s, "find")
    /\ UNCHANGED <<kmz_file, listing, direct, events, inputs,
                   button_shown, locals, session_state, last_success, error>>

\* Lines 119-125: the search; without a markup file the script goes on to
\* its last section.
FindUpload(s) ==
    /\ pc[s] = "find"
    /\ IF FindKml(kml_dir, listing) = NoPath
       THEN /\ button_shown' = [button_shown EXCEPT ![s] = FALSE]
            /\ DisplayAndEnd(s)
       ELSE /\ kml_path' = [kml_path EXCEPT ![s] = FindKml(kml_dir, listing)]
            /\ Goto(s, "layers")
            /\ UNCHANGED <<button_shown, selected_layer, kmz_bytes, fn_kml_path,
                           markup_read, result>>
    /\ UNCHANGED <<disk, listing, direct, events, inputs, session_state,
                   last_success, error>>

\* Lines 126-130: the layers are listed, one is selected, the button is
\* drawn; a run not started by the button goes on to the last section.
SelectLayer(s, layer) ==
    /\ pc[s] = "layers"
    /\ layer \in ListLayers(kml_dir[kml_path[s]])
    /\ button_shown' = [button_shown EXCEPT ![s] = TRUE]
    /\ IF clicked[s]
       THEN /\ selected_layer' = [selected_layer EXCEPT ![s] = layer]
            /\ Goto(s, "read")
            /\ UNCHANGED <<kml_path, kmz_bytes, fn_kml_path, markup_read, result>>
       ELSE DisplayAndEnd(s)
    /\ UNCHANGED <<disk, listing, direct, events, inputs, session_state,
                   last_success, error>>

\* Line 133: open(tmp_kmz_path, "rb").read(), the function's first argument.
ReadBack(s) ==
    /\ pc[s] = "read"
    /\ kmz_bytes' = [kmz_bytes EXCEPT ![s] = kmz_file]
    /\ Goto(s, "fn_save")
    /\ UNCHANGED <<disk, listing, direct, events, inputs, button_shown, kml_path,
                   selected_layer, fn_kml_path, markup_read, result,
                   session_state, last_success, error>>

\* Lines 10-15: the function writes its argument to tmp_upload/uploaded.kmz.
FnSave(s) ==
    /\ pc[s] = "fn_save"
    /\ kmz_file' = kmz_bytes[s]
    /\ Goto(s, "fn_extract")
    /\ UNCHANGED <<kml_dir, listing, direct, events, inputs,
                   button_shown, locals, session_state, last_success, error>>

\* Lines 17-18.
FnExtract(s) ==
    /\ pc[s] = "fn_extract"
    /\ kml_dir' = ExtractAll(kmz_file, kml_dir)
    /\ Goto(s, "fn_find")
    /\ UNCHANGED <<kmz_file, listing, direct, events, inputs,
                   button_shown, locals, session_state, last_success, error>>

\* Lines 21-25.
FnFind(s) ==
    /\ pc[s] = "fn_find"
    /\ fn_kml_path' = [fn_kml_path EXCEPT ![s] = FindKml(kml_dir, listing)]
    /\ Goto(s, "fn_run")
    /\ UNCHANGED <<disk, listing, direct, events, inputs, button_shown, kml_path,
                   selected_layer, kmz_bytes, markup_read, result, session_state,
                   last_success, error>>

\* Line 95: what the caller receives.
ReturnValue(outcome) ==
    [html_bytes |-> outcome.html_bytes, txt_content |-> outcome.txt_content,
     center |-> outcome.center]

\* Lines 26-95 and the return to line 132: the markup file now at the path
\* found is read and the result computed; an uncaught exception ends the
\* script run and st.session_state is kept.
FnRun(s) ==
    /\ pc[s] = "fn_run"
    /\ \E outcome \in {GenerateFrom(kml_dir, fn_kml_path[s], selected_layer[s],
                                      num_points[s], ZoomStartDefault)} :
           IF outcome.status = "raised"
           THEN /\ error' = [error EXCEPT ![s] = outcome.error]
                /\ EndRun(s)
                /\ UNCHANGED last_success
           ELSE /\ result' = [result EXCEPT ![s] = ReturnValue(outcome)]
                /\ last_success' = [last_success EXCEPT ![s] = ReturnValue(outcome)]
                /\ markup_read' = [markup_read EXCEPT ![s] =
                                       <<fn_kml_path[s], kml_dir[fn_kml_path[s]]>>]
                /\ Goto(s, "store")
                /\ UNCHANGED <<error, kml_path, selected_layer, kmz_bytes,
                               fn_kml_path>>
    /\ UNCHANGED <<disk, listing, direct, events, inputs, button_shown,
                   session_state>>

\* Only two of the three keys are assigned.
StoreWithoutCentroid(state, r) ==
    [state EXCEPT !.map_html = Entry(r.html_bytes),
                  !.txt_content = Entry(r.txt_content)]

\* Lines 137-139: the three values are put in st.session_state.
StoreResult(state, r) ==
    [state EXCEPT !.map_html = Entry(r.html_bytes),
                  !.txt_content = Entry(r.txt_content),
                  !.centroid_coords = Entry(r.center)]

\* Lines 137-165: the result is stored and the last section shows it.
Store(s) ==
    /\ pc[s] = "store"
    /\ session_state' = [session_state EXCEPT ![s] = StoreResult(@, result[s])]
    /\ DisplayAndEnd(s)
    /\ UNCHANGED <<disk, listing, direct, events, inputs, button_shown,
                   last_success, error>>

UiArchives == {"KmzA", "KmzB", "KmzN"}

UiNext ==
    \E s \in Sessions :
        \/ \E kmz \in UiArchives : Upload(s, kmz)
        \/ \E n \in SliderValues : Click(s, n)
        \/ ExtractUpload(s)
        \/ FindUpload(s)
        \/ \E layer \in LayerNames : SelectLayer(s, layer)
        \/ ReadBack(s)
        \/ FnSave(s)
        \/ FnExtract(s)
        \/ FnFind(s)
        \/ FnRun(s)
        \/ Store(s)

UiSpec == Init /\ [][UiNext]_vars

(***************************************************************************)
(* Properties of the script runs                                           *)
(***************************************************************************)
\* The files an upload writes into the directory: name and content.
WrittenByUpload(kmz) ==
    {<<f, ArchiveEntries(kmz)[f]>> : f \in DOMAIN ArchiveEntries(kmz)}

\* C3: with two sessions' runs interleaved, the archive bytes a generation
\* reads back (line 133) are the ones its own session uploaded, and the
\* markup file it reads (line 30) is one its own upload wrote.
C3_OwnWorkingFiles ==
    \A s \in Sessions :
        /\ pc[s] = "fn_save" => kmz_bytes[s] = uploaded_file[s]
        /\ pc[s] = "store" => markup_read[s] \in WrittenByUpload(uploaded_file[s])

\* st.session_state holding exactly the three values of one result.
CacheOf(r) ==
    IF r = Missing THEN EmptySessionState
    ELSE [map_html |-> Entry(r.html_bytes), txt_content |-> Entry(r.txt_content),
          centroid_coords |-> Entry(r.center)]

Ended == call.status = "ended"
ReturnedCall == Ended /\ call.outcome.status = "returned"

\* The document the latest call read, when it found one.
DocRead == kml_dir[call.kml_path]

\* C1: a call whose archive holds no file ending in .kml fails with the
\* missing-markup-file error, whatever earlier calls extracted.
C1_MissingMarkupRaises ==
    (Ended /\ ~HasKml(call.kmz_bytes)) =>
        call.outcome = Raised("FileNotFoundError")

SameInputs(c, d) ==
    /\ c.kmz_bytes = d.kmz_bytes
    /\ c.layer_name = d.layer_name
    /\ c.num_points = d.num_points

SameGeometry(o, q) ==
    /\ o.status = q.status
    /\ o.status = "returned" =>
        /\ o.locals.perimeter = q.locals.perimeter
        /\ o.locals.resampled_coords = q.locals.resampled_coords
        /\ o.center = q.center

\* C2: two calls with the same archive, layer name and num_points yield the
\* same perimeter, sampled points and centroid, whatever ran in between.
C2_SameInputsSameResult ==
    (Ended /\ earlier.status = "ended" /\ SameInputs(call, earlier)) =>
        SameGeometry(call.outcome, earlier.outcome)

\* The lines of the report of the form "{k}: {coord}".
IsPointLine(ln) == Len(ln) = 3 /\ ln[2] = ": "
PointLines(txt) == SelectSeq(txt, IsPointLine)

\* C4: the report of a successful call with num_points >= 1 holds exactly
\* num_points sampled-point lines, numbered 1..num_points in order, line i
\* carrying the i-th sampled point.
C4_ReportLines ==
    (ReturnedCall /\ call.num_points >= 1) =>
        LET txt == call.outcome.txt_content
            pts == call.outcome.locals.resampled_points
        IN  /\ Len(PointLines(txt)) = call.num_points
            /\ Len(pts) = call.num_points
            /\ \A k \in 1..call.num_points :
                   /\ txt[k + 1] = <<k, ": ", pts[k].coords[1]>>
                   /\ PointLines(txt)[k] = txt[k + 1]

C4_Witness ==
    /\ ReturnedCall
    /\ call.num_points = MaxPoints
    /\ Len(PointLines(call.outcome.txt_content)) = MaxPoints

\* The hull of a layer is not a polygon: its points are none, one, two or
\* all on one line.
DegenerateLayer(doc, layer_name) ==
    BuildPerimeter(ProjectToMetric(LoadLayer(doc, layer_name))).hull.kind # "Polygon"

ReadsLayer ==
    /\ Ended
    /\ call.kml_path # NoPath
    /\ call.layer_name \in ListLayers(DocRead)

\* C5: a call on a layer with a degenerate hull fails with the
\* degenerate-geometry error and returns nothing.
C5_DegenerateRaises ==
    (ReadsLayer /\ DegenerateLayer(DocRead, call.layer_name)) =>
        call.outcome = Raised("DegenerateGeometryError")

\* C6: a call with num_points < 1 fails; it never returns a result with an
\* empty sequence of sampled points.
C6_LowCountRaises ==
    (Ended /\ call.num_points < 1) => call.outcome.status = "raised"

\* The part of a closed line before the point p, as a fraction of its
\* length: p is on the k-th segment, not at its end.
OnSegment(a, b, p) ==
    /\ CrossSign(a, b, p) = 0
    /\ p # b
    /\ RLeq(a[1], p[1]) \/ RLeq(b[1], p[1])
    /\ RLeq(p[1], a[1]) \/ RLeq(p[1], b[1])
    /\ RLeq(a[2], p[2]) \/ RLeq(b[2], p[2])
    /\ RLeq(p[2], a[2]) \/ RLeq(p[2], b[2])

AlongSegment(a, b, p) ==
    IF a[1] # b[1] THEN RDiv(RSub(p[1], a[1]), RSub(b[1], a[1]))
    ELSE RDiv(RSub(p[2], a[2]), RSub(b[2], a[2]))

ArcFraction(c, p) ==
    LET k == CHOOSE i \in 1..(Len(c) - 1) :
                 /\ OnSegment(c[i], c[i + 1], p)
                 /\ \A j \in 1..(i - 1) : ~OnSegment(c[j], c[j + 1], p)
        before == RSum(SubSeq(SegLens(c), 1, k - 1))
    IN  RDiv(RAdd(before, RMul(AlongSegment(c[k], c[k + 1], p), SegLens(c)[k])),
             LineLength(c))

OnLine(c, p) == \E i \in 1..(Len(c) - 1) : OnSegment(c[i], c[i + 1], p)

\* C7: for N >= 1 the sampler emits exactly N points in order, point i
\* (i = 0..N-1) at fraction i/N of the boundary: the first at the boundary's
\* first vertex, fractions strictly increasing, fraction 1 never emitted.
C7_EvenlySpaced ==
    (ReturnedCall /\ call.num_points >= 1) =>
        LET n == call.num_points
            ring == call.outcome.locals.perimeter.coords
            pts == call.outcome.locals.resampled_coords
            fr == call.outcome.locals.fractions
        IN  /\ Len(pts) = n
            /\ pts[1] = ring[1]
            /\ \A k \in 1..n :
                   /\ OnLine(ring, pts[k])
                   /\ ArcFraction(ring, pts[k]) = Rat(k - 1, n)
                   /\ fr[k] = Rat(k - 1, n)
                   /\ RLess(fr[k], Num(1))
            /\ \A k \in 1..(n - 1) : RLess(fr[k], fr[k + 1])

C7_Witness ==
    /\ ReturnedCall
    /\ call.num_points = MaxPoints
    /\ \E k \in 1..MaxPoints :
           call.outcome.locals.resampled_coords[k]
               \notin Range(call.outcome.locals.perimeter.coords)

\* C9: when a call ends, the working location holds no file it wrote.
C9_NothingLeftOnDisk ==
    Ended => (kmz_file = Absent /\ kml_dir = EmptyDir)

\* What reaches the user is in the geographic CRS: the report lines and the
\* markers are the sampled points, the map centre and the returned centroid
\* are the reprojected centroid.
UserFacingGeographic(o) ==
    LET L == o.locals
        markers == SelectSeq(o.html_bytes.children,
                             LAMBDA ch : ch.type = "CircleMarker")
    IN  /\ L.perimeter.crs = WGS84
        /\ Range(L.perimeter.coords) \subseteq Range(FramePoints(L.gdf))
        /\ \A k \in DOMAIN L.resampled_points :
               /\ L.resampled_points[k].crs = WGS84
               /\ PointLines(o.txt_content)[k][3] = L.resampled_points[k].coords[1]
               /\ markers[k].location = <<L.resampled_points[k].coords[1][2],
                                          L.resampled_points[k].coords[1][1]>>
        /\ L.centroid_wgs.crs = WGS84
        /\ o.center = <<L.centroid_wgs.coords[1][2], L.centroid_wgs.coords[1][1]>>
        /\ o.html_bytes.location = o.center
        /\ o.html_bytes.children[1].data.crs = WGS84
        /\ o.html_bytes.children[2].data = L.perimeter

\* The union, the hull and the centroid are taken of metric geometry, the
\* images of the layer's points under the projection.
MetricHullAndCentroid(o) ==
    LET L == o.locals
    IN  /\ L.gdf.crs = WGS84
        /\ L.gdf_m.crs = UTM35S
        /\ FramePoints(L.gdf_m) = [i \in DOMAIN L.gdf.geometry |->
                                       ToMetric(FramePoints(L.gdf)[i])]
        /\ L.combined.crs = UTM35S
        /\ L.hull.crs = UTM35S
        /\ Range(L.hull.coords) \subseteq Range(FramePoints(L.gdf_m))
        /\ L.centroid.crs = UTM35S

\* C10: union, hull, centroid and arc-length interpolation are all applied
\* to metric geometry, and every coordinate reaching the user is geographic.
C10_AllMetric ==
    ReturnedCall =>
        /\ MetricHullAndCentroid(call.outcome)
        /\ call.outcome.locals.perimeter_line.crs = UTM35S
        /\ UserFacingGeographic(call.outcome)

\* C10 as amended: union, hull and centroid are applied to metric geometry;
\* the arc-length interpolation is applied to the perimeter after it is
\* reprojected to the geographic CRS; every coordinate reaching the user is
\* geographic.
C10_MetricExceptSampling ==
    ReturnedCall =>
        /\ MetricHullAndCentroid(call.outcome)
        /\ call.outcome.locals.perimeter_line.crs = WGS84
        /\ call.outcome.locals.perimeter_line.coords
               = call.outcome.locals.perimeter.coords
        /\ UserFacingGeographic(call.outcome)

C10_Witness ==
    /\ ReturnedCall
    /\ call.num_points = MaxPoints
    /\ call.outcome.locals.hull.coords # call.outcome.locals.perimeter.coords

====
